---- MODULE Spec2Model ----
(***************************************************************************)
(* Budget allocator of the trip-mentor BudgetPlanner component             *)
(* (src/trip-mentor/src/components/BudgetPlanner.tsx).                     *)
(*                                                                         *)
(* The component keeps its state in React useState cells.  A handler runs  *)
(* against the values captured by the render that created it; every        *)
(* setX(v) call of one handler run is queued and the queue is applied in   *)
(* order when the handler returns, so for two plain setCategories(v) calls *)
(* in one handler the last one decides the next state.  Objects are        *)
(* references: an object that a handler mutates in place is also changed   *)
(* in every array that still holds it.                                     *)
(*                                                                         *)
(* Math.round is modelled on exact rationals (round half towards +oo).     *)
(* The inputs enumerated below were chosen so that IEEE-754 double         *)
(* evaluation of the source expressions gives the same integer.            *)
(***************************************************************************)
EXTENDS Integers, Sequences, FiniteSets, TLC

\* ---------------------------------------------------------------- bounds
MaxSmallBudget == 3
MaxDurationInput == 1
MaxOverRequest == 20
MaxSmallAmount == 1

\* values parseInt can return for the budget field (NaN is a separate case)
BudgetInputs == (-1..MaxSmallBudget) \cup {-1000, 100, 1000}
\* values parseInt can return for the duration field
DurationInputs == (-1..MaxDurationInput) \cup {7}
\* percentages requested of handlePercentageChange
Requests == {0 - MaxOverRequest, 0, 35, 50, 100, 100 + MaxOverRequest}
\* amounts requested of handleAmountChange
AmountInputs == (-1..MaxSmallAmount) \cup {50, 500, 1500}
\* ids handed to the handlers: the six seeded ids and one that matches nothing
CallIds == {"1", "2", "3", "4", "5", "6", "7"}
Currencies == {"USD", "INR"}

\* ------------------------------------------------------------ arithmetic
Max(a, b) == IF a >= b THEN a ELSE b

\* Math.round(num / den): nearest integer, halves towards +infinity
MathRound(num, den) ==
    IF den > 0 THEN (2 * num + den) \div (2 * den)
               ELSE (0 - 2 * num - den) \div (0 - 2 * den)

\* result of parseInt(e.target.value): NaN or an integer
Parsed(vals) == {[nan |-> TRUE, val |-> 0]} \cup {[nan |-> FALSE, val |-> v] : v \in vals}

\* parseInt(x) || d
OrDefault(parsed, d) == IF parsed.nan \/ parsed.val = 0 THEN d ELSE parsed.val

\* ------------------------------------------------------------------ state
VARIABLES totalBudget, duration, currency, categories, lastCall

\* BudgetPlanner.tsx lines 41 and 51-56, and what generatePlan has in flight:
\* the closures of pending 1500 ms timers and of pending places requests;
\* shownFor records the closures the displayed results were computed from
VARIABLES location, isLoading, planGenerated, isLoadingPlaces, placeError,
          recommendations, suggestedPlaces, timers, requests, shownFor

\* server/routes/itinerary.ts line 21, the number of ids uuidv4 has issued,
\* and the last request with its response
VARIABLES itineraries, issued, lastRequest

\* AuthContext.tsx: localStorage keys tripMentorUsers and tripMentorUser,
\* the user and loading cells, and the last call with its result
VARIABLES tripMentorUsers, tripMentorUser, user, loading, authCall

allocatorVars == <<totalBudget, duration, currency, categories, lastCall>>
planVars == <<location, isLoading, planGenerated, isLoadingPlaces, placeError,
              recommendations, suggestedPlaces, timers, requests, shownFor>>
storeVars == <<itineraries, issued, lastRequest>>
authVars == <<tripMentorUsers, tripMentorUser, user, loading, authCall>>

vars == <<allocatorVars, planVars, storeVars, authVars>>

InitialCategories ==
    << [id |-> "1", name |-> "Accommodation",  amount |-> 0, percentage |-> 35],
       [id |-> "2", name |-> "Food & Drinks",  amount |-> 0, percentage |-> 25],
       [id |-> "3", name |-> "Transportation", amount |-> 0, percentage |-> 15],
       [id |-> "4", name |-> "Activities",     amount |-> 0, percentage |-> 15],
       [id |-> "5", name |-> "Shopping",       amount |-> 0, percentage |-> 5],
       [id |-> "6", name |-> "Miscellaneous",  amount |-> 0, percentage |-> 5] >>

\* cats.reduce((sum, cat) => sum + cat.percentage, 0)
RECURSIVE SumPercentage(_)
SumPercentage(cats) ==
    IF cats = <<>> THEN 0
    ELSE cats[1].percentage + SumPercentage(Tail(cats))

\* cats.filter(cat => cat.id !== id)
RECURSIVE FilterOthers(_, _)
FilterOthers(cats, id) ==
    IF cats = <<>> THEN <<>>
    ELSE IF cats[1].id # id THEN <<cats[1]>> \o FilterOthers(Tail(cats), id)
         ELSE FilterOthers(Tail(cats), id)

\* filter in place of map: categories whose amount comes to 0 are dropped
RECURSIVE updateCategoryAmountsFiltered(_, _)
updateCategoryAmountsFiltered(cats, budget) ==
    IF cats = <<>> THEN <<>>
    ELSE LET amount == MathRound(cats[1].percentage * budget, 100)
             rest == updateCategoryAmountsFiltered(Tail(cats), budget)
         IN  IF amount = 0 THEN rest
             ELSE <<[cats[1] EXCEPT !.amount = amount]>> \o rest

\* the amount truncated instead of rounded
updateCategoryAmountsFloor(cats, budget) ==
    [i \in DOMAIN cats |->
        [cats[i] EXCEPT !.amount = (cats[i].percentage * budget) \div 100]]

\* the computed value stored under the wrong key
updateCategoryAmountsWrongKey(cats, budget) ==
    [i \in DOMAIN cats |->
        [cats[i] EXCEPT !.percentage = MathRound(cats[i].percentage * budget, 100)]]

\* lines 68-79, applied to the array the closure holds
updateCategoryAmounts(cats, budget) ==
    [i \in DOMAIN cats |->
        [cats[i] EXCEPT !.amount = MathRound(cats[i].percentage * budget, 100)]]

\* ------------------------------------------------- handlePercentageChange
\* line 103: categories.map(c => c.id === id ? {...c, percentage: p} : c)
WithPercentage(cats, id, newPercentage) ==
    [i \in DOMAIN cats |->
        IF cats[i].id = id THEN [cats[i] EXCEPT !.percentage = newPercentage]
                           ELSE cats[i]]

\* lines 113-118: the proportional pass is entered
PassEntered(cats, id, newPercentage) ==
    /\ SumPercentage(WithPercentage(cats, id, newPercentage)) # 100
    /\ Len(FilterOthers(WithPercentage(cats, id, newPercentage), id)) > 0

\* line 120: otherCategoriesTotal
OtherCategoriesTotal(cats, id, newPercentage) ==
    SumPercentage(FilterOthers(WithPercentage(cats, id, newPercentage), id))

\* lines 123-137: the array after the proportional pass
Proportional(cats, id, newPercentage) ==
    LET first == WithPercentage(cats, id, newPercentage)
        adjustment == 100 - SumPercentage(first)
        others == OtherCategoriesTotal(cats, id, newPercentage)
    IN  IF ~PassEntered(cats, id, newPercentage) THEN first
        ELSE [i \in DOMAIN first |->
                IF first[i].id = id THEN first[i]
                ELSE IF others = 0 THEN first[i]
                ELSE [first[i] EXCEPT !.percentage =
                        Max(0, MathRound(first[i].percentage * others
                                         + adjustment * first[i].percentage, others))]]

\* the proportional pass assigning category.percentage instead of copying
IsCopyInPlace(cats, id, newPercentage, i) == cats[i].id = id

\* TRUE when updatedCategories[i] is a copy made by this call ({...category}),
\* FALSE when it is still the object that the closure's categories[i] holds
IsCopy(cats, id, newPercentage, i) ==
    \/ cats[i].id = id
    \/ /\ PassEntered(cats, id, newPercentage)
       /\ OtherCategoriesTotal(cats, id, newPercentage) # 0

\* the residual given to the last non-edited category
AdjustmentIndexLast(cats, id) ==
    IF cats = <<>> THEN 0
    ELSE IF \E i \in DOMAIN cats : cats[i].id # id
         THEN CHOOSE i \in DOMAIN cats :
                /\ cats[i].id # id
                /\ \A j \in DOMAIN cats : cats[j].id # id => j <= i
         ELSE 1

\* line 145: index of updatedCategories.find(cat => cat.id !== id) || updatedCategories[0]
\* (0 when the array is empty and both are undefined)
AdjustmentIndex(cats, id) ==
    IF cats = <<>> THEN 0
    ELSE IF \E i \in DOMAIN cats : cats[i].id # id
         THEN CHOOSE i \in DOMAIN cats :
                /\ cats[i].id # id
                /\ \A j \in DOMAIN cats : cats[j].id # id => i <= j
         ELSE 1

\* lines 142-149: updatedCategories as handed to setCategories on line 151
UpdatedCategories(cats, id, newPercentage) ==
    LET prop == Proportional(cats, id, newPercentage)
        finalTotal == SumPercentage(prop)
        k == AdjustmentIndex(prop, id)
    IN  IF finalTotal # 100 /\ k # 0
        THEN [prop EXCEPT ![k].percentage = @ + (100 - finalTotal)]
        ELSE prop

\* the closure's `categories` array when line 153 reads it: its objects are
\* the ones of the render, changed wherever updatedCategories shares them
ClosureCategories(cats, id, newPercentage) ==
    LET updatedCategories == UpdatedCategories(cats, id, newPercentage)
    IN  [i \in DOMAIN cats |->
            IF IsCopy(cats, id, newPercentage, i) THEN cats[i]
            ELSE updatedCategories[i]]

\* lines 151-153: setCategories(updatedCategories) is queued, then
\* updateCategoryAmounts(totalBudget) maps the closure's `categories` and
\* queues its own setCategories; the later write is the next state
\* updateCategoryAmounts called with the request instead of totalBudget
handlePercentageChangeWrongArg(cats, budget, id, newPercentage) ==
    updateCategoryAmounts(ClosureCategories(cats, id, newPercentage), newPercentage)

handlePercentageChange(cats, budget, id, newPercentage) ==
    updateCategoryAmounts(ClosureCategories(cats, id, newPercentage), budget)

\* --------------------------------------------------------- handleAmountChange
\* line 162: Math.round((newAmount / totalBudget) * 100)
AmountAsPercentage(budget, newAmount) == MathRound(newAmount * 100, budget)

\* an amount edit that stores the typed amount itself
handleAmountChangeDirect(cats, budget, id, newAmount) ==
    [i \in DOMAIN cats |->
        IF cats[i].id = id THEN [cats[i] EXCEPT !.amount = newAmount] ELSE cats[i]]

\* lines 157-166
handleAmountChange(cats, budget, id, newAmount) ==
    IF budget <= 0 THEN cats
    ELSE handlePercentageChange(cats, budget, id, AmountAsPercentage(budget, newAmount))

\* ------------------------------------------------------------------ actions
\* the state a handler run started from
Snapshot ==
    [totalBudget |-> totalBudget, duration |-> duration,
     currency |-> currency, categories |-> categories]

\* record of the last handler run: which handler, its arguments, the state
\* it started from, and the array of its first setCategories call
Call(op, id, request, firstWrite) ==
    [op |-> op, id |-> id, request |-> request,
     pre |-> Snapshot, firstWrite |-> firstWrite]

\* no closure
NoSnapshot ==
    [totalBudget |-> 0, duration |-> 0, currency |-> "", categories |-> <<>>,
     location |-> ""]

\* BudgetPlanner.tsx lines 41, 51-56
InitPlan ==
    /\ location = ""
    /\ isLoading = FALSE
    /\ planGenerated = FALSE
    /\ isLoadingPlaces = FALSE
    /\ placeError = ""
    /\ recommendations = <<>>
    /\ suggestedPlaces = [location |-> "", source |-> "none", places |-> <<>>]
    /\ timers = <<>>
    /\ requests = <<>>
    /\ shownFor = [recommendations |-> NoSnapshot, suggestedPlaces |-> NoSnapshot,
                   outcome |-> "none"]

\* itinerary.ts line 21
InitStore ==
    /\ itineraries = <<>>
    /\ issued = 0
    /\ lastRequest = [method |-> "none", id |-> "", body |-> <<>>,
                      status |-> 0, pre |-> <<>>]

\* AuthContext.tsx lines 34-49, with an empty localStorage
InitAuth ==
    /\ tripMentorUsers = <<>>
    /\ tripMentorUser = [name |-> "", email |-> ""]
    /\ user = [name |-> "", email |-> ""]
    /\ loading = FALSE
    /\ authCall = [op |-> "none", email |-> "", password |-> "",
                   result |-> FALSE, pre |-> <<>>]

Init ==
    /\ InitPlan
    /\ InitStore
    /\ InitAuth
    /\ totalBudget = 0
    /\ duration = 7
    /\ currency = "USD"
    /\ categories = InitialCategories
    /\ lastCall = [op |-> "none", id |-> "", request |-> 0,
                   pre |-> [totalBudget |-> 0, duration |-> 7, currency |-> "USD",
                            categories |-> InitialCategories],
                   firstWrite |-> InitialCategories]

\* lines 82-87
HandleBudgetChange(parsed) ==
    LET value == OrDefault(parsed, 0)
    IN  /\ totalBudget' = value
        /\ categories' = updateCategoryAmounts(categories, value)
        /\ lastCall' = Call("budget", "", value, categories')
        /\ UNCHANGED <<duration, currency>>
        /\ UNCHANGED <<planVars, storeVars, authVars>>

\* lines 90-92
HandleCurrencyChange(code) ==
    /\ currency' = code
    /\ lastCall' = Call("currency", "", 0, categories)
    /\ UNCHANGED <<totalBudget, duration, categories>>
    /\ UNCHANGED <<planVars, storeVars, authVars>>

\* the duration handler written as a copy of handleBudgetChange, still
\* calling updateCategoryAmounts(value)
HandleDurationChangeRecompute(parsed) ==
    LET value == OrDefault(parsed, 1)
    IN  /\ duration' = value
        /\ categories' = updateCategoryAmounts(categories, value)
        /\ lastCall' = Call("duration", "", value, categories)
        /\ UNCHANGED <<totalBudget, currency>>
        /\ UNCHANGED <<planVars, storeVars, authVars>>

\* lines 95-98
HandleDurationChange(parsed) ==
    LET value == OrDefault(parsed, 1)
    IN  /\ duration' = value
        /\ lastCall' = Call("duration", "", value, categories)
        /\ UNCHANGED <<totalBudget, currency, categories>>
        /\ UNCHANGED <<planVars, storeVars, authVars>>

\* lines 101-154
HandlePercentageChange(id, newPercentage) ==
    /\ categories' = handlePercentageChange(categories, totalBudget, id, newPercentage)
    /\ lastCall' = Call("percentage", id, newPercentage,
                        UpdatedCategories(categories, id, newPercentage))
    /\ UNCHANGED <<totalBudget, duration, currency>>
    /\ UNCHANGED <<planVars, storeVars, authVars>>

\* lines 157-166
HandleAmountChange(id, newAmount) ==
    /\ categories' = handleAmountChange(categories, totalBudget, id, newAmount)
    /\ lastCall' = Call("amount", id, newAmount,
                        IF totalBudget <= 0 THEN categories
                        ELSE UpdatedCategories(categories, id,
                                 AmountAsPercentage(totalBudget, newAmount)))
    /\ UNCHANGED <<totalBudget, duration, currency>>
    /\ UNCHANGED <<planVars, storeVars, authVars>>

Next ==
    \/ \E parsed \in Parsed(BudgetInputs) : HandleBudgetChange(parsed)
    \/ \E code \in Currencies : HandleCurrencyChange(code)
    \/ \E parsed \in Parsed(DurationInputs) : HandleDurationChange(parsed)
    \/ \E id \in CallIds, p \in Requests : HandlePercentageChange(id, p)
    \/ \E id \in CallIds, a \in AmountInputs : HandleAmountChange(id, a)

Spec == Init /\ [][Next]_vars

\* ----------------------------------------------------------- properties
Percentages(cats) == [i \in DOMAIN cats |-> cats[i].percentage]
Amounts(cats) == [i \in DOMAIN cats |-> cats[i].amount]
Ids(cats) == {cats[i].id : i \in DOMAIN cats}

\* the last handler run was a percentage or amount edit of an existing category
EditedExisting ==
    /\ lastCall.op \in {"percentage", "amount"}
    /\ lastCall.id \in Ids(lastCall.pre.categories)

\* the category of cats with the given id
Category(cats, id) == cats[CHOOSE i \in DOMAIN cats : cats[i].id = id]

\* C1: after every percentage or amount edit of an existing category, the
\* percentages of the resulting category state sum to exactly 100.
C1_SumTo100 == EditedExisting => SumPercentage(categories) = 100

C1_Witness ==
    /\ lastCall.op = "amount"
    /\ lastCall.id = "3"
    /\ lastCall.pre.totalBudget = 1000
    /\ lastCall.request = 500
    /\ SumPercentage(lastCall.firstWrite) = 100
    /\ Percentages(lastCall.firstWrite) # Percentages(lastCall.pre.categories)

\* C2: after a percentage edit of an existing category with a request in
\* 0..100, the edited category's percentage in the resulting state is the
\* request.
C2_EditedHoldsRequest ==
    ( /\ lastCall.op = "percentage"
      /\ lastCall.id \in Ids(lastCall.pre.categories)
      /\ lastCall.request \in 0..100 )
    => Category(categories, lastCall.id).percentage = lastCall.request

C4_AmountConsistent ==
    lastCall.op \in {"budget", "percentage", "amount"} =>
        \A i \in DOMAIN categories :
            categories[i].amount = MathRound(categories[i].percentage * totalBudget, 100)

C4_Witness ==
    /\ lastCall.op = "budget"
    /\ totalBudget = 2
    /\ Amounts(categories) = <<1, 1, 0, 0, 0, 0>>

\* C5: Scenario A.  From 35/25/15/15/5/5 with totalBudget 1000, the edit
\* (Accommodation, 50) leaves Accommodation at 50, the last four categories
\* at old + round(-15 * old / 65), and Food at 19 plus the residual.
ScenarioAProportional ==
    [i \in 1..6 |->
        IF i = 1 THEN 50
        ELSE IF i = 2 THEN 19
        ELSE InitialCategories[i].percentage
             + MathRound((0 - 15) * InitialCategories[i].percentage, 65)]

RECURSIVE SumSeq(_)
SumSeq(seq) == IF seq = <<>> THEN 0 ELSE seq[1] + SumSeq(Tail(seq))

ScenarioAExpected ==
    [ScenarioAProportional EXCEPT ![2] = @ + (100 - SumSeq(ScenarioAProportional))]

C5_ScenarioA ==
    ( /\ lastCall.op = "percentage"
      /\ lastCall.id = "1"
      /\ lastCall.request = 50
      /\ lastCall.pre.totalBudget = 1000
      /\ Percentages(lastCall.pre.categories) = Percentages(InitialCategories) )
    => Percentages(categories) = ScenarioAExpected

\* C6: with totalBudget > 0 an amount edit leaves exactly the state that the
\* percentage edit with round(a / totalBudget * 100) leaves from the same
\* starting state, and changes nothing else.
C6_AmountDelegates ==
    (lastCall.op = "amount" /\ lastCall.pre.totalBudget > 0) =>
        /\ categories = handlePercentageChange(lastCall.pre.categories,
                            lastCall.pre.totalBudget, lastCall.id,
                            MathRound(lastCall.request * 100, lastCall.pre.totalBudget))
        /\ totalBudget = lastCall.pre.totalBudget
        /\ duration = lastCall.pre.duration
        /\ currency = lastCall.pre.currency

C6_Witness ==
    /\ lastCall.op = "amount"
    /\ lastCall.pre.totalBudget = 100
    /\ lastCall.request = 50
    /\ lastCall.id = "2"
    /\ Category(lastCall.firstWrite, "2").percentage = 50

\* C7: with totalBudget <= 0 an amount edit changes neither totalBudget nor
\* any category's percentage or amount.
C7_AmountNoOpWithoutBudget ==
    (lastCall.op = "amount" /\ lastCall.pre.totalBudget <= 0) =>
        /\ categories = lastCall.pre.categories
        /\ totalBudget = lastCall.pre.totalBudget

C7_Witness ==
    /\ lastCall.op = "amount"
    /\ lastCall.pre.totalBudget = 0
    /\ lastCall.request = 500
    /\ lastCall.id \in Ids(categories)

\* C8: a percentage or amount edit with an id that matches no category
\* leaves every category's percentage and amount unchanged.
C8_UnknownIdNoOp ==
    ( /\ lastCall.op \in {"percentage", "amount"}
      /\ lastCall.id \notin Ids(lastCall.pre.categories) )
    => /\ Percentages(categories) = Percentages(lastCall.pre.categories)
       /\ Amounts(categories) = Amounts(lastCall.pre.categories)

C8_Witness ==
    /\ lastCall.op = "percentage"
    /\ lastCall.id = "7"
    /\ lastCall.request = 50
    /\ lastCall.pre.totalBudget = 1000

\* C9: repeating the percentage edit just made, on the state it produced,
\* gives that same category state again.
C9_Idempotent ==
    ( /\ lastCall.op = "percentage"
      /\ lastCall.id \in Ids(lastCall.pre.categories) )
    => handlePercentageChange(categories, totalBudget, lastCall.id, lastCall.request)
         = categories

C9_Witness ==
    /\ lastCall.op = "percentage"
    /\ lastCall.id = "2"
    /\ lastCall.request = 50
    /\ lastCall.pre.totalBudget = 100
    /\ Percentages(lastCall.firstWrite) # Percentages(lastCall.pre.categories)

Names(cats) == [i \in DOMAIN cats |-> cats[i].name]
IdList(cats) == [i \in DOMAIN cats |-> cats[i].id]

\* C11: a budget edit stores the new total, recomputes every amount from it
\* and leaves every category's percentage, id, name and position unchanged.
C11_BudgetFrame ==
    lastCall.op = "budget" =>
        /\ totalBudget = lastCall.request
        /\ \A i \in DOMAIN categories :
              categories[i].amount
                = MathRound(lastCall.pre.categories[i].percentage * lastCall.request, 100)
        /\ Percentages(categories) = Percentages(lastCall.pre.categories)
        /\ IdList(categories) = IdList(lastCall.pre.categories)
        /\ Names(categories) = Names(lastCall.pre.categories)

C11_Witness ==
    /\ lastCall.op = "budget"
    /\ lastCall.pre.totalBudget = 3
    /\ totalBudget = 1000
    /\ Amounts(categories) = <<350, 250, 150, 150, 50, 50>>
    /\ Amounts(lastCall.pre.categories) = <<1, 1, 0, 0, 0, 0>>

\* C12: totalBudget and every amount are non-negative in every reachable
\* state, and a budget edit with a zero, negative or unparseable input leaves
\* every amount at 0.
C12_NonNegativeBudget ==
    /\ totalBudget >= 0
    /\ \A i \in DOMAIN categories : categories[i].amount >= 0
    /\ (lastCall.op = "budget" /\ lastCall.request <= 0)
          => \A i \in DOMAIN categories : categories[i].amount = 0

\* C13: the percentage that step 1 of a percentage or amount edit assigns to
\* the edited category lies in 0..100, whatever the request.
C13_RequestClamped ==
    ( /\ EditedExisting
      /\ lastCall.op = "amount" => lastCall.pre.totalBudget > 0 )
    => Category(WithPercentage(lastCall.pre.categories, lastCall.id,
                    IF lastCall.op = "amount"
                    THEN AmountAsPercentage(lastCall.pre.totalBudget, lastCall.request)
                    ELSE lastCall.request),
                lastCall.id).percentage \in 0..100

\* ------------------------------------------------- UI percentage controls
\* line 565-566: the range input's min and max; lines 577, 583: the step of
\* the - and + buttons
SliderMin == 5
SliderMax == 60
ButtonStep == 5

Min(a, b) == IF a <= b THEN a ELSE b

\* positions the slider is dragged to
SliderInputs == {SliderMin + ButtonStep * k : k \in 0..((SliderMax - SliderMin) \div ButtonStep)}

\* lines 563-570: the breakdown (line 527) is rendered only when totalBudget > 0
SliderChange(i, value) ==
    /\ totalBudget > 0
    /\ categories' = handlePercentageChange(categories, totalBudget, categories[i].id, value)
    /\ lastCall' = Call("slider", categories[i].id, value,
                        UpdatedCategories(categories, categories[i].id, value))
    /\ UNCHANGED <<totalBudget, duration, currency>>
    /\ UNCHANGED <<planVars, storeVars, authVars>>

\* lines 576-581
MinusClick(i) ==
    LET value == Max(SliderMin, categories[i].percentage - ButtonStep)
    IN  /\ totalBudget > 0
        /\ categories' = handlePercentageChange(categories, totalBudget, categories[i].id, value)
        /\ lastCall' = Call("minus", categories[i].id, value,
                            UpdatedCategories(categories, categories[i].id, value))
        /\ UNCHANGED <<totalBudget, duration, currency>>
        /\ UNCHANGED <<planVars, storeVars, authVars>>

\* lines 582-587
PlusClick(i) ==
    LET value == Min(SliderMax, categories[i].percentage + ButtonStep)
    IN  /\ totalBudget > 0
        /\ categories' = handlePercentageChange(categories, totalBudget, categories[i].id, value)
        /\ lastCall' = Call("plus", categories[i].id, value,
                            UpdatedCategories(categories, categories[i].id, value))
        /\ UNCHANGED <<totalBudget, duration, currency>>
        /\ UNCHANGED <<planVars, storeVars, authVars>>

\* the budget field and the percentage controls only
NextControls ==
    \/ \E parsed \in Parsed(BudgetInputs) : HandleBudgetChange(parsed)
    \/ \E i \in DOMAIN categories, value \in SliderInputs : SliderChange(i, value)
    \/ \E i \in DOMAIN categories : MinusClick(i)
    \/ \E i \in DOMAIN categories : PlusClick(i)

SpecControls == Init /\ [][NextControls]_vars

C15_AtomicEdit ==
    ( /\ lastCall.op = "percentage"
      /\ lastCall.id \in Ids(lastCall.pre.categories) )
    => /\ SumPercentage(categories) = 100
       /\ \A i \in DOMAIN categories :
             categories[i].amount = MathRound(categories[i].percentage * totalBudget, 100)
       /\ Percentages(categories) = Percentages(lastCall.firstWrite)

\* C16: duration is at least 1 in every reachable state.
C16_DurationPositive == duration >= 1

\* ------------------------------------------------------- per-day figures
\* lines 212 and 257: categories.find(c => c.name === 'Activities')?.amount || 0
ActivitiesBudget(cats) ==
    IF \E i \in DOMAIN cats : cats[i].name = "Activities"
    THEN cats[CHOOSE i \in DOMAIN cats :
                /\ cats[i].name = "Activities"
                /\ \A j \in DOMAIN cats : cats[j].name = "Activities" => i <= j].amount
    ELSE 0

\* lines 213 and 258: Math.round(activitiesBudget / duration)
DailyActivitiesBudget(cats, days) == MathRound(ActivitiesBudget(cats), days)

\* C17: the per-day figure is round(amount / duration) for duration >= 1
\* (amount 700 over 7 days is 100) and is computed with duration 1 when
\* duration < 1.  Stated of the figure fetchSuggestedPlaces derives, in the
\* states with a positive budget (generatePlan requires a non-zero one).
C17_DailyAmount ==
    /\ DailyActivitiesBudget(<<[id |-> "4", name |-> "Activities",
                                amount |-> 700, percentage |-> 15]>>, 7) = 100
    /\ totalBudget > 0 =>
          DailyActivitiesBudget(categories, duration)
            = MathRound(ActivitiesBudget(categories), IF duration < 1 THEN 1 ELSE duration)

\* C18: a duration or currency change leaves the category list and
\* totalBudget as they were.
C18_DurationCurrencyFrame ==
    lastCall.op \in {"duration", "currency"} =>
        /\ categories = lastCall.pre.categories
        /\ totalBudget = lastCall.pre.totalBudget

C18_Witness ==
    /\ lastCall.op = "duration"
    /\ lastCall.pre.duration = 7
    /\ duration = 1
    /\ currency = "INR"
    /\ totalBudget = 1000
    /\ Amounts(categories) = <<350, 250, 150, 150, 50, 50>>

\* ------------------------------------------------ getBudgetLevelIndicator
\* line 61: exchangeRates.INR = 83.14, kept as hundredths
InrRateHundredths == 8314

\* num / den < k and num / den > k for den # 0
RatioBelow(num, den, k) == IF den > 0 THEN num < k * den ELSE num > k * den
RatioAbove(num, den, k) == IF den > 0 THEN num > k * den ELSE num < k * den

\* lines 175-191: the switch on the category name
Thresholds(category) ==
    CASE category = "Accommodation"  -> [low |-> 50, high |-> 150]
      [] category = "Food & Drinks"  -> [low |-> 30, high |-> 100]
      [] category = "Transportation" -> [low |-> 10, high |-> 50]
      [] category = "Activities"     -> [low |-> 20, high |-> 80]
      [] OTHER                       -> [low |-> 15, high |-> 50]

\* the comparison with `low` written <=
getBudgetLevelIndicatorInclusive(amount, category, code, days) ==
    LET num == IF code = "INR" THEN amount * 100 ELSE amount
        den == IF code = "INR" THEN InrRateHundredths * days ELSE days
    IN  IF ~RatioAbove(num, den, Thresholds(category).low) THEN "Budget"
        ELSE IF RatioAbove(num, den, Thresholds(category).high) THEN "Luxury"
        ELSE "Standard"

\* lines 169-201: the text of the indicator; dailyAmount is
\* (amount / 83.14) / duration in INR and amount / duration in USD
getBudgetLevelIndicator(amount, category, code, days) ==
    LET num == IF code = "INR" THEN amount * 100 ELSE amount
        den == IF code = "INR" THEN InrRateHundredths * days ELSE days
    IN  IF RatioBelow(num, den, Thresholds(category).low) THEN "Budget"
        ELSE IF RatioAbove(num, den, Thresholds(category).high) THEN "Luxury"
        ELSE "Standard"

\* per-day spends the classification is probed with
MaxDailyProbe == 201
DailyProbes == 0..MaxDailyProbe

TierRank(text) == CASE text = "Budget" -> 1 [] text = "Standard" -> 2 [] text = "Luxury" -> 3

\* the (low, high) pairs as the claim lists them
ClaimedLow(name) ==
    IF name = "Accommodation" THEN 50 ELSE IF name = "Food & Drinks" THEN 30
    ELSE IF name = "Transportation" THEN 10 ELSE IF name = "Activities" THEN 20 ELSE 15
ClaimedHigh(name) ==
    IF name = "Accommodation" THEN 150 ELSE IF name = "Food & Drinks" THEN 100
    ELSE IF name = "Transportation" THEN 50 ELSE IF name = "Activities" THEN 80 ELSE 50

\* C19: where the indicator is shown (duration > 0) and the currency is USD,
\* a category with per-day spend d is Budget when d < low, Luxury when
\* d > high and Standard otherwise, with the claimed (low, high) per name;
\* Accommodation at 40, 100 and 200 a day is Budget, Standard and Luxury; the
\* tier does not decrease when the amount grows.
C19_AffordabilityTier ==
    (duration > 0 /\ currency = "USD") =>
        /\ \A i \in DOMAIN categories, d \in DailyProbes :
              getBudgetLevelIndicator(d * duration, categories[i].name, currency, duration)
                = IF d < ClaimedLow(categories[i].name) THEN "Budget"
                  ELSE IF d > ClaimedHigh(categories[i].name) THEN "Luxury"
                  ELSE "Standard"
        /\ getBudgetLevelIndicator(40 * duration, "Accommodation", currency, duration) = "Budget"
        /\ getBudgetLevelIndicator(100 * duration, "Accommodation", currency, duration) = "Standard"
        /\ getBudgetLevelIndicator(200 * duration, "Accommodation", currency, duration) = "Luxury"
        /\ \A i \in DOMAIN categories :
              /\ RatioBelow(categories[i].amount, duration, ClaimedLow(categories[i].name))
                   <=> getBudgetLevelIndicator(categories[i].amount, categories[i].name,
                                               currency, duration) = "Budget"
              /\ RatioAbove(categories[i].amount, duration, ClaimedHigh(categories[i].name))
                   <=> getBudgetLevelIndicator(categories[i].amount, categories[i].name,
                                               currency, duration) = "Luxury"
              /\ \A d \in DailyProbes :
                    d * duration >= categories[i].amount =>
                        TierRank(getBudgetLevelIndicator(d * duration, categories[i].name,
                                                         currency, duration))
                          >= TierRank(getBudgetLevelIndicator(categories[i].amount,
                                          categories[i].name, currency, duration))

\* Accommodation 350 over 7 days is exactly its low threshold of 50 a day
C19_Witness ==
    /\ duration = 7
    /\ currency = "USD"
    /\ totalBudget = 1000
    /\ categories[1].amount = 350
    /\ getBudgetLevelIndicator(categories[1].amount, categories[1].name, currency, duration)
         = "Standard"
    /\ getBudgetLevelIndicator(categories[5].amount, categories[5].name, currency, duration)
         = "Budget"

\* ----------------------------------------------------- affordablePriceLevel
\* lines 213-224 of fetchSuggestedPlaces, from the Activities amount
AffordablePriceLevel(activitiesBudget, days, code) ==
    LET dailyActivitiesBudget == MathRound(activitiesBudget, days)
        dailyActivitiesBudgetUSD ==
            IF code = "INR"
            THEN MathRound(dailyActivitiesBudget * 100, InrRateHundredths)
            ELSE dailyActivitiesBudget
    IN  IF dailyActivitiesBudgetUSD < 30 THEN 1
        ELSE IF dailyActivitiesBudgetUSD < 60 THEN 2 ELSE 3

\* lines 258-268 of generateFallbackPlaces, from the Activities amount
FallbackPriceLevel(activitiesBudget, days, code) ==
    LET dailyActivitiesBudget == MathRound(activitiesBudget, days)
        dailyActivitiesBudgetUSD ==
            IF code = "INR"
            THEN MathRound(dailyActivitiesBudget * 100, InrRateHundredths)
            ELSE dailyActivitiesBudget
    IN  IF dailyActivitiesBudgetUSD < 30 THEN 1
        ELSE IF dailyActivitiesBudgetUSD < 60 THEN 2 ELSE 3

\* the Activities amounts the budget field can produce
ActivitiesAmounts ==
    {ActivitiesBudget(updateCategoryAmounts(InitialCategories, b)) : b \in BudgetInputs \cup {0}}

\* C20, stated part by part.  The level is in 0..3.
C20_LevelInRange ==
    AffordablePriceLevel(ActivitiesBudget(categories), duration, currency) \in 0..3

\* In USD the level is 1, 2, 3 for d < 30, 30 <= d < 60, d >= 60, where
\* d = round(Activities.amount / duration).
C20_LevelBySpend ==
    currency = "USD" =>
        AffordablePriceLevel(ActivitiesBudget(categories), duration, currency)
          = IF DailyActivitiesBudget(categories, duration) < 30 THEN 1
            ELSE IF DailyActivitiesBudget(categories, duration) < 60 THEN 2 ELSE 3

\* The live path and the fallback path compute the same level.
C20_SameOnBothPaths ==
    AffordablePriceLevel(ActivitiesBudget(categories), duration, currency)
      = FallbackPriceLevel(ActivitiesBudget(categories), duration, currency)

\* The level does not decrease when the Activities amount grows.
C20_Monotone ==
    \A a \in ActivitiesAmounts :
        a >= ActivitiesBudget(categories) =>
            AffordablePriceLevel(a, duration, currency)
              >= AffordablePriceLevel(ActivitiesBudget(categories), duration, currency)

\* C20: the affordable price level is in 0..3, in USD is 1, 2 or 3 by the
\* rounded per-day Activities spend (below 30, below 60, otherwise), does not
\* decrease when the Activities amount grows, and is the same on the live
\* and the fallback path.
C20_PriceLevel ==
    /\ C20_LevelInRange
    /\ C20_LevelBySpend
    /\ C20_SameOnBothPaths
    /\ C20_Monotone

\* ---------------------------------------------------------------------- C21
\* C21: in every reachable state the ordered list of (id, name) pairs of the
\* categories is the seeded one, and the ids are pairwise distinct
C21_IdentityFrame ==
    /\ IdList(categories) = IdList(InitialCategories)
    /\ Names(categories) = Names(InitialCategories)
    /\ \A i, j \in DOMAIN categories :
            categories[i].id = categories[j].id => i = j

\* an edit of an existing category has run on a funded plan
C21_Witness ==
    /\ lastCall.op = "percentage"
    /\ lastCall.id = "3"
    /\ lastCall.request = 50
    /\ totalBudget = 100

\* ---------------------------------------------------------------------- C22
\* position of the first category, in list order, whose id differs from id
\* (0 when there is none)
FirstOther(cats, id) ==
    IF \A i \in DOMAIN cats : cats[i].id = id THEN 0
    ELSE CHOOSE i \in DOMAIN cats :
            /\ cats[i].id # id
            /\ \A j \in 1..(i - 1) : cats[j].id = id

MaxProbeBudget == 20

Abs(n) == IF n >= 0 THEN n ELSE 0 - n

\* C24: in every reachable state with totalBudget >= 0 and percentages that
\* sum to 100, the six amounts sum to within 3 of totalBudget; the same holds
\* for the amounts updateCategoryAmounts derives from the state's percentages
\* for every budget of 0..MaxProbeBudget
C24_AmountsNearBudget ==
    (totalBudget >= 0 /\ SumPercentage(categories) = 100) =>
        /\ Abs(SumSeq(Amounts(categories)) - totalBudget) <= 3
        /\ \A budget \in 0..MaxProbeBudget :
                Abs(SumSeq(Amounts(updateCategoryAmounts(categories, budget)))
                    - budget) <= 3

\* a state whose amounts do not sum to the budget (1, 1, 0, 0, 0, 0 of 3),
\* and whose percentages give 13 for a budget of 10: the bound 3 is met
C24_Witness ==
    /\ totalBudget = 3
    /\ SumPercentage(categories) = 100
    /\ SumSeq(Amounts(categories)) = 2
    /\ SumSeq(Amounts(updateCategoryAmounts(categories, 10))) = 13

\* ---------------------------------------------------------------------- C25
\* n / 100 rounded up, for n >= 0
CeilHundredth(n) == (n + 99) \div 100

\* C25: after an amount edit of an existing category with totalBudget T > 0
\* and 0 <= a <= T, the edited category's stored amount is within ceil(T/100)
\* of a, and equals a when T = 100
C25_AmountRoundTrip ==
    ( /\ lastCall.op = "amount"
      /\ lastCall.id \in Ids(lastCall.pre.categories)
      /\ lastCall.pre.totalBudget > 0
      /\ lastCall.request \in 0..lastCall.pre.totalBudget )
    => /\ Abs(Category(categories, lastCall.id).amount - lastCall.request)
            <= CeilHundredth(lastCall.pre.totalBudget)
       /\ lastCall.pre.totalBudget = 100
            => Category(categories, lastCall.id).amount = lastCall.request

\* ---------------------------------------------------------------------- C23
\* handlePercentageChange as a function of the categories its closure holds:
\* the closure may hold any allocation, among them the ones where one
\* category has everything and the ones where nothing is allocated
RebalanceBudget == 100

RebalanceInputs ==
    {[i \in 1..6 |-> InitialCategories[i].percentage]}
    \cup {[i \in 1..6 |-> IF i = e THEN 100 ELSE 0] : e \in 1..6}
    \cup {[i \in 1..6 |-> 0]}

InitRebalance ==
    /\ InitPlan
    /\ InitStore
    /\ InitAuth
    /\ totalBudget = RebalanceBudget
    /\ duration = 7
    /\ currency = "USD"
    /\ \E input \in RebalanceInputs :
            categories = updateCategoryAmounts(
                [i \in 1..6 |-> [InitialCategories[i] EXCEPT !.percentage = input[i]]],
                RebalanceBudget)
    /\ lastCall = [op |-> "none", id |-> "", request |-> 0,
                   pre |-> [totalBudget |-> RebalanceBudget, duration |-> 7,
                            currency |-> "USD", categories |-> categories],
                   firstWrite |-> categories]

NextRebalance ==
    \E id \in CallIds, newPercentage \in Requests :
        HandlePercentageChange(id, newPercentage)

SpecRebalance == InitRebalance /\ [][NextRebalance]_vars

\* every category other than id holds 0
OthersAllZero(cats, id) ==
    \A i \in DOMAIN cats : cats[i].id # id => cats[i].percentage = 0

MaxPending == 2

PlanBudgets == {0, 3000}
PlanDurations == {1, 7}
Locations == {"", "Goa"}

\* what a render's closures hold: generatePlan, its timer callback,
\* fetchSuggestedPlaces and generateFallbackPlaces of one render all read
\* these values
PlanSnapshot ==
    [totalBudget |-> totalBudget, duration |-> duration, currency |-> currency,
     categories |-> categories, location |-> location]

\* categories.find(c => c.name === name)?.amount || 0
AmountOf(cats, name) ==
    IF \E i \in DOMAIN cats : cats[i].name = name
    THEN cats[CHOOSE i \in DOMAIN cats :
                /\ cats[i].name = name
                /\ \A j \in DOMAIN cats : cats[j].name = name => i <= j].amount
    ELSE 0

\* lines 336-344: budgetLevel
BudgetLevel(snap) ==
    LET totalBudgetUSD ==
            IF snap.currency = "INR"
            THEN MathRound(snap.totalBudget * 100, InrRateHundredths)
            ELSE snap.totalBudget
    IN  IF totalBudgetUSD < 1000 THEN "low"
        ELSE IF totalBudgetUSD < 3000 THEN "medium" ELSE "high"

\* lines 346-417: recommendationsByBudget[budgetLevel], each card with the
\* values its texts are built from (estimatedCost 0 where the text is fixed)
RecommendationsFor(snap) ==
    LET level == BudgetLevel(snap)
        accommodationBudget == AmountOf(snap.categories, "Accommodation")
        foodBudget == AmountOf(snap.categories, "Food & Drinks")
        activitiesBudget == AmountOf(snap.categories, "Activities")
        card(id, category, cost) ==
            [id |-> id, category |-> category, level |-> level,
             location |-> snap.location, currency |-> snap.currency,
             estimatedCost |-> cost]
    IN  << card("1", "Accommodation", MathRound(accommodationBudget, snap.duration)),
           card("2", "Food & Drinks",
                IF level = "high" THEN MathRound(foodBudget, snap.duration * 2)
                ELSE MathRound(foodBudget, snap.duration * 3)),
           card("3", "Activities",
                IF level = "low" THEN 0
                ELSE IF level = "medium"
                     THEN MathRound(activitiesBudget * 2, snap.duration)
                     ELSE MathRound(activitiesBudget * 3, snap.duration)) >>

\* a places response body: attractions of the server, one without price_level
ApiAttractions ==
    << [id |-> "a", priced |-> FALSE, price_level |-> 0],
       [id |-> "b", priced |-> TRUE, price_level |-> 2],
       [id |-> "c", priced |-> TRUE, price_level |-> 3] >>

\* lines 271-308: samplePlaces
SamplePlaces ==
    << [id |-> "1", priced |-> TRUE, price_level |-> 0],
       [id |-> "2", priced |-> TRUE, price_level |-> 1],
       [id |-> "3", priced |-> TRUE, price_level |-> 2],
       [id |-> "4", priced |-> TRUE, price_level |-> 3] >>

RECURSIVE FilterPlaces(_, _, _)
\* Array.filter keeping the places whose level is at most maxLevel; a place
\* without price_level counts as defaultLevel
FilterPlaces(places, maxLevel, defaultLevel) ==
    IF places = <<>> THEN <<>>
    ELSE LET priceLevel == IF places[1].priced THEN places[1].price_level
                           ELSE defaultLevel
             rest == FilterPlaces(Tail(places), maxLevel, defaultLevel)
         IN  IF priceLevel <= maxLevel THEN <<places[1]>> \o rest ELSE rest

\* lines 211-224: affordablePriceLevel of the closure
SnapshotPriceLevel(snap) ==
    AffordablePriceLevel(AmountOf(snap.categories, "Activities"),
                         snap.duration, snap.currency)

\* lines 235-243: what a response with attractions puts on display
FilteredPlaces(snap, attractions) ==
    [location |-> snap.location, source |-> "api",
     places |-> FilterPlaces(attractions, SnapshotPriceLevel(snap), 0)]

\* lines 256-319: generateFallbackPlaces; a sample place without price_level
\* would be dropped (4 exceeds every level)
FallbackPlaces(snap) ==
    [location |-> snap.location, source |-> "sample",
     places |-> FilterPlaces(SamplePlaces,
                    FallbackPriceLevel(AmountOf(snap.categories, "Activities"),
                                       snap.duration, snap.currency), 4)]

FetchFailedMessage == "Failed to fetch tourist attractions. Using sample data instead."

\* line 510: onChange of the destination input
SetLocation(value) ==
    /\ location' = value
    /\ lastCall' = Call("location", "", 0, categories)
    /\ UNCHANGED <<totalBudget, duration, currency, categories>>
    /\ UNCHANGED <<isLoading, planGenerated, isLoadingPlaces, placeError,
                   recommendations, suggestedPlaces, timers, requests, shownFor>>
    /\ UNCHANGED <<storeVars, authVars>>

\* the click handler without its early return
GeneratePlanUnguarded ==
    /\ ~isLoading
    /\ Len(timers) + Len(requests) < MaxPending
    /\ lastCall' = Call("generatePlan", "", 0, categories)
    /\ isLoading' = TRUE
    /\ timers' = Append(timers, PlanSnapshot)
    /\ UNCHANGED <<location, planGenerated, isLoadingPlaces, placeError,
                   recommendations, suggestedPlaces, requests, shownFor>>
    /\ UNCHANGED <<totalBudget, duration, currency, categories>>
    /\ UNCHANGED <<storeVars, authVars>>

\* lines 322-326 and 424: the click handler.  The button is disabled while
\* isLoading (line 518), so no click arrives then; the handler's own early
\* return covers a zero budget and an empty destination.  Otherwise isLoading
\* is set and the timer is armed with the closure of this render.  Clicks are
\* not taken while MaxPending plans are in flight.
GeneratePlan ==
    /\ ~isLoading
    /\ Len(timers) + Len(requests) < MaxPending
    /\ lastCall' = Call("generatePlan", "", 0, categories)
    /\ IF totalBudget = 0 \/ location = ""
       THEN UNCHANGED planVars
       ELSE /\ isLoading' = TRUE
            /\ timers' = Append(timers, PlanSnapshot)
            /\ UNCHANGED <<location, planGenerated, isLoadingPlaces, placeError,
                           recommendations, suggestedPlaces, requests, shownFor>>
    /\ UNCHANGED <<totalBudget, duration, currency, categories>>
    /\ UNCHANGED <<storeVars, authVars>>

\* the timer callback reading the current state instead of its closure
TimerFiresCurrent ==
    /\ timers # <<>>
    /\ recommendations' = RecommendationsFor(PlanSnapshot)
    /\ isLoading' = FALSE
    /\ planGenerated' = TRUE
    /\ timers' = Tail(timers)
    /\ isLoadingPlaces' = TRUE
    /\ placeError' = ""
    /\ requests' = Append(requests, PlanSnapshot)
    /\ shownFor' = [shownFor EXCEPT !.recommendations = Head(timers),
                                    !.outcome = "pending"]
    /\ UNCHANGED <<location, suggestedPlaces>>
    /\ UNCHANGED <<allocatorVars, storeVars, authVars>>

\* lines 329-423: the timer callback, 1500 ms after the click, with the
\* closure of the click; it runs fetchSuggestedPlaces (lines 204-226) up to
\* the await of the request, which stays in flight with the same closure
TimerFires ==
    /\ timers # <<>>
    /\ LET snap == Head(timers)
       IN  /\ recommendations' = RecommendationsFor(snap)
           /\ isLoading' = FALSE
           /\ planGenerated' = TRUE
           /\ timers' = Tail(timers)
           /\ IF snap.location = ""
              THEN UNCHANGED <<isLoadingPlaces, placeError, requests>>
              ELSE /\ isLoadingPlaces' = TRUE
                   /\ placeError' = ""
                   /\ requests' = Append(requests, snap)
           /\ shownFor' = [shownFor EXCEPT !.recommendations = snap,
                                           !.outcome = "pending"]
    /\ UNCHANGED <<location, suggestedPlaces>>
    /\ UNCHANGED <<allocatorVars, storeVars, authVars>>

\* seq without its element at position i
RemoveAt(seq, i) ==
    [j \in 1..(Len(seq) - 1) |-> IF j < i THEN seq[j] ELSE seq[j + 1]]

\* lines 227-243, 250-252: request i is answered with a body; attractions
\* present are filtered and displayed, a body without them displays nothing new
PlacesResponse(i, hasAttractions) ==
    /\ i \in DOMAIN requests
    /\ suggestedPlaces' = IF hasAttractions
                          THEN FilteredPlaces(requests[i], ApiAttractions)
                          ELSE suggestedPlaces
    /\ isLoadingPlaces' = FALSE
    /\ requests' = RemoveAt(requests, i)
    /\ shownFor' = IF hasAttractions
                   THEN [shownFor EXCEPT !.suggestedPlaces = requests[i],
                                         !.outcome = "displayed"]
                   ELSE [shownFor EXCEPT !.outcome = "nothing"]
    /\ UNCHANGED <<location, isLoading, planGenerated, placeError,
                   recommendations, timers>>
    /\ UNCHANGED <<allocatorVars, storeVars, authVars>>

\* lines 244-252: request i is rejected
PlacesFailure(i) ==
    /\ i \in DOMAIN requests
    /\ placeError' = FetchFailedMessage
    /\ suggestedPlaces' = FallbackPlaces(requests[i])
    /\ isLoadingPlaces' = FALSE
    /\ requests' = RemoveAt(requests, i)
    /\ shownFor' = [shownFor EXCEPT !.suggestedPlaces = requests[i],
                                    !.outcome = "failed"]
    /\ UNCHANGED <<location, isLoading, planGenerated, recommendations, timers>>
    /\ UNCHANGED <<allocatorVars, storeVars, authVars>>

\* the request settles, one way or the other
PlacesSettle ==
    \/ \E i \in DOMAIN requests, hasAttractions \in BOOLEAN :
            PlacesResponse(i, hasAttractions)
    \/ \E i \in DOMAIN requests : PlacesFailure(i)

NextPlan ==
    \/ \E parsed \in Parsed(PlanBudgets) : HandleBudgetChange(parsed)
    \/ \E parsed \in Parsed(PlanDurations) : HandleDurationChange(parsed)
    \/ \E code \in Currencies : HandleCurrencyChange(code)
    \/ \E value \in Locations : SetLocation(value)
    \/ GeneratePlan
    \/ TimerFires
    \/ PlacesSettle

SpecPlan == Init /\ [][NextPlan]_vars

\* the steps that decide whether a plan is pending: duration edits change
\* only the values a later click captures
NextPlanLive ==
    \/ \E parsed \in Parsed(PlanBudgets) : HandleBudgetChange(parsed)
    \/ \E code \in Currencies : HandleCurrencyChange(code)
    \/ \E value \in Locations : SetLocation(value)
    \/ GeneratePlan
    \/ TimerFires
    \/ PlacesSettle

\* the timer fires once armed (setTimeout), and a request in flight settles
SpecPlanLive ==
    /\ Init
    /\ [][NextPlanLive]_vars
    /\ WF_vars(TimerFires)
    /\ WF_vars(PlacesSettle)

\* ---------------------------------------------------------------------- C26
\* a step of the generatePlan click handler
GeneratePlanStep ==
    /\ lastCall' # lastCall
    /\ lastCall'.op = "generatePlan"

\* C26: a generatePlan call with totalBudget = 0 or an empty location changes
\* no state; any other call sets isLoading; isLoading leads to isLoading =
\* FALSE with planGenerated = TRUE once the timer has fired; isLoadingPlaces
\* then returns to FALSE whether the request succeeds or fails; and after a
\* failure placeError is set and the sample list of the fallback is displayed
C26_GeneratePlan ==
    /\ [][(GeneratePlanStep /\ (totalBudget = 0 \/ location = ""))
            => UNCHANGED <<totalBudget, duration, currency, categories, planVars>>]_vars
    /\ [][(GeneratePlanStep /\ totalBudget # 0 /\ location # "")
            => (isLoading' /\ planGenerated' = planGenerated)]_vars
    /\ isLoading ~> (~isLoading /\ planGenerated)
    /\ isLoadingPlaces ~> ~isLoadingPlaces
    /\ [](shownFor.outcome = "failed"
            => /\ placeError = FetchFailedMessage
               /\ suggestedPlaces = FallbackPlaces(shownFor.suggestedPlaces)
               /\ suggestedPlaces.source = "sample")

\* a plan was generated and its places request failed: the error is shown
\* with the sample list, and loading is over
C26_Witness ==
    /\ planGenerated
    /\ ~isLoading
    /\ ~isLoadingPlaces
    /\ shownFor.outcome = "failed"
    /\ placeError = FetchFailedMessage
    /\ Len(suggestedPlaces.places) = 4

\* ---------------------------------------------------------------------- C27
\* C27: the displayed recommendations are the ones computed from the values
\* the click's closure held, and the displayed places are filtered by the
\* price level of that closure, on the response path and on the fallback path
C27_ClickTimeValues ==
    /\ planGenerated =>
            recommendations = RecommendationsFor(shownFor.recommendations)
    /\ shownFor.outcome = "displayed" =>
            suggestedPlaces = FilteredPlaces(shownFor.suggestedPlaces, ApiAttractions)
    /\ shownFor.outcome = "failed" =>
            suggestedPlaces = FallbackPlaces(shownFor.suggestedPlaces)
    /\ \A i \in DOMAIN timers : timers[i].totalBudget # 0 /\ timers[i].location # ""
    /\ \A i \in DOMAIN requests : requests[i].totalBudget # 0 /\ requests[i].location # ""

\* budget, duration and currency were edited while the plan was pending:
\* the displayed plan is the one of the click, not the one the current
\* state would give
C27_Witness ==
    /\ planGenerated
    /\ shownFor.outcome = "displayed"
    /\ shownFor.recommendations.totalBudget # totalBudget
    /\ shownFor.recommendations.duration # duration
    /\ shownFor.recommendations.currency # currency
    /\ recommendations # RecommendationsFor(PlanSnapshot)
    /\ suggestedPlaces # FilteredPlaces(PlanSnapshot, ApiAttractions)

\* ------------------------------------------- itinerary store (itinerary.ts)
\* uuidv4 is modelled as a fresh id per call: the n-th id issued is Uuid(n)
MaxIssued == 5

UuidPool == <<"u1", "u2", "u3", "u4", "u5", "u6", "u7", "u8", "u9">>
Uuid(n) == UuidPool[n]

UserIds == {"", "alice"}
Activities == {"", "hike"}
ItemFields == {"id", "userId", "activity"}

\* ids a request may name: every id issued so far and one never issued
PathIds == {Uuid(n) : n \in 1..(MaxIssued + 1)}

\* request bodies of PUT: with or without an id (that of an item or a
\* foreign one), with or without an activity
PutBodies ==
    {<<>>}
    \cup {[f \in {"id"} |-> id] : id \in {Uuid(1), Uuid(MaxIssued + 1)}}
    \cup {[f \in {"activity"} |-> "swim"]}
    \cup {[f \in {"id", "activity"} |-> IF f = "id" THEN id ELSE "swim"] :
                id \in {Uuid(1), Uuid(MaxIssued + 1)}}

TemplateDurations == {0, 1}

\* itineraries.findIndex(item => item.id === id), 0 for -1
FindIndex(items, id) ==
    IF \E i \in DOMAIN items : items[i].id = id
    THEN CHOOSE i \in DOMAIN items :
            /\ items[i].id = id
            /\ \A j \in 1..(i - 1) : items[j].id # id
    ELSE 0

Request(method, id, body, status) ==
    [method |-> method, id |-> id, body |-> body, status |-> status,
     pre |-> itineraries]

\* lines 54-93: POST /
PostItem(userId, activity) ==
    /\ issued < MaxIssued
    /\ IF userId = "" \/ activity = ""
       THEN /\ lastRequest' = Request("POST", "", <<userId, activity>>, 400)
            /\ UNCHANGED <<itineraries, issued>>
       ELSE /\ issued' = issued + 1
            /\ itineraries' = Append(itineraries,
                    [id |-> Uuid(issued + 1), userId |-> userId, activity |-> activity])
            /\ lastRequest' = Request("POST", Uuid(issued + 1), <<userId, activity>>, 201)
    /\ UNCHANGED <<allocatorVars, planVars, authVars>>

\* the spread with the body last: {...item, id, ...updatedData}
MergedBodyLast(item, updatedData, id) ==
    [f \in ItemFields |->
        IF f \in DOMAIN updatedData THEN updatedData[f]
        ELSE IF f = "id" THEN id
        ELSE item[f]]

\* lines 108-112: {...itineraries[itemIndex], ...updatedData, id}
Merged(item, updatedData, id) ==
    [f \in ItemFields |->
        IF f = "id" THEN id
        ELSE IF f \in DOMAIN updatedData THEN updatedData[f]
        ELSE item[f]]

\* lines 96-115: PUT /:id
PutItem(id, updatedData) ==
    LET itemIndex == FindIndex(itineraries, id)
    IN  /\ IF itemIndex = 0
           THEN /\ lastRequest' = Request("PUT", id, updatedData, 404)
                /\ UNCHANGED itineraries
           ELSE /\ itineraries' = [itineraries EXCEPT
                        ![itemIndex] = Merged(itineraries[itemIndex], updatedData, id)]
                /\ lastRequest' = Request("PUT", id, updatedData, 200)
        /\ UNCHANGED issued
        /\ UNCHANGED <<allocatorVars, planVars, authVars>>

\* splice(itemIndex) without a count: everything from itemIndex on is removed
SpliceToEnd(items, itemIndex) == SubSeq(items, 1, itemIndex - 1)

\* line 129: itineraries.splice(itemIndex, 1)
Splice(items, itemIndex) ==
    [j \in 1..(Len(items) - 1) |->
        IF j < itemIndex THEN items[j] ELSE items[j + 1]]

\* lines 118-132: DELETE /:id
DeleteItem(id) ==
    LET itemIndex == FindIndex(itineraries, id)
    IN  /\ IF itemIndex = 0
           THEN /\ lastRequest' = Request("DELETE", id, <<>>, 404)
                /\ UNCHANGED itineraries
           ELSE /\ itineraries' = Splice(itineraries, itemIndex)
                /\ lastRequest' = Request("DELETE", id, <<>>, 200)
        /\ UNCHANGED issued
        /\ UNCHANGED <<allocatorVars, planVars, authVars>>

\* lines 135-226: POST /generate-template, four items a day
GenerateTemplate(userId, days) ==
    /\ issued + 4 * days <= MaxIssued
    /\ IF userId = "" \/ days = 0
       THEN /\ lastRequest' = Request("TEMPLATE", "", <<userId>>, 400)
            /\ UNCHANGED <<itineraries, issued>>
       ELSE /\ issued' = issued + 4 * days
            /\ itineraries' = itineraries \o
                    [n \in 1..(4 * days) |->
                        [id |-> Uuid(issued + n), userId |-> userId,
                         activity |-> <<"morning", "lunch", "afternoon", "dinner">>
                                        [((n - 1) % 4) + 1]]]
            /\ lastRequest' = Request("TEMPLATE", Uuid(issued + 1), <<userId>>, 201)
    /\ UNCHANGED <<allocatorVars, planVars, authVars>>

NextStore ==
    \/ \E userId \in UserIds, activity \in Activities : PostItem(userId, activity)
    \/ \E id \in PathIds, updatedData \in PutBodies : PutItem(id, updatedData)
    \/ \E id \in PathIds : DeleteItem(id)
    \/ \E userId \in UserIds, days \in TemplateDurations : GenerateTemplate(userId, days)

SpecStore == Init /\ [][NextStore]_vars

\* ---------------------------------------------------------------------- C28
ItemIds(items) == [i \in DOMAIN items |-> items[i].id]

\* C28: after PUT /:id for a stored id the response is 200, the items are as
\* many as before with the same ids in the same order (a different id in the
\* body changes nothing), and the items other than the target are unchanged;
\* after PUT for an absent id the response is 404 and the store is unchanged
C28_PutKeepsIdentity ==
    lastRequest.method = "PUT" =>
        IF \E i \in DOMAIN lastRequest.pre : lastRequest.pre[i].id = lastRequest.id
        THEN /\ lastRequest.status = 200
             /\ Len(itineraries) = Len(lastRequest.pre)
             /\ ItemIds(itineraries) = ItemIds(lastRequest.pre)
             /\ \A i \in DOMAIN itineraries :
                    itineraries[i].id # lastRequest.id
                        => itineraries[i] = lastRequest.pre[i]
        ELSE /\ lastRequest.status = 404
             /\ itineraries = lastRequest.pre

\* a PUT for the second of several items whose body carries another item's
\* id and a new activity: the activity was taken, the id was not
C28_Witness ==
    /\ lastRequest.method = "PUT"
    /\ lastRequest.status = 200
    /\ lastRequest.id = Uuid(2)
    /\ DOMAIN lastRequest.body = {"id", "activity"}
    /\ lastRequest.body["id"] = Uuid(1)
    /\ Len(itineraries) >= 3
    /\ itineraries[2].id = Uuid(2)
    /\ itineraries[2].activity = "swim"
    /\ lastRequest.pre[2].activity # "swim"

\* ---------------------------------------------------------------------- C29
\* C29: after DELETE /:id for a stored id the response is 200 and the store
\* is the previous one without the first item of that id, the others in
\* their order; after DELETE for an absent id the response is 404 and the
\* store is unchanged; a DELETE that directly follows a successful DELETE of
\* the same id returns 404 and changes nothing
C29_DeleteExactlyOne ==
    /\ [](lastRequest.method = "DELETE" =>
            IF \E i \in DOMAIN lastRequest.pre : lastRequest.pre[i].id = lastRequest.id
            THEN /\ lastRequest.status = 200
                 /\ Len(itineraries) = Len(lastRequest.pre) - 1
                 /\ \E k \in DOMAIN lastRequest.pre :
                        /\ lastRequest.pre[k].id = lastRequest.id
                        /\ \A j \in 1..(k - 1) : lastRequest.pre[j].id # lastRequest.id
                        /\ \A j \in 1..(k - 1) : itineraries[j] = lastRequest.pre[j]
                        /\ \A j \in k..Len(itineraries) :
                                itineraries[j] = lastRequest.pre[j + 1]
            ELSE /\ lastRequest.status = 404
                 /\ itineraries = lastRequest.pre)
    /\ [][( /\ lastRequest.method = "DELETE"
            /\ lastRequest.status = 200
            /\ lastRequest' # lastRequest
            /\ lastRequest'.method = "DELETE"
            /\ lastRequest'.id = lastRequest.id )
          => (lastRequest'.status = 404 /\ itineraries' = itineraries)]_vars

\* the same id deleted twice in a row from a store that keeps other items:
\* the second request found nothing
C29_Witness ==
    /\ lastRequest.method = "DELETE"
    /\ lastRequest.status = 404
    /\ lastRequest.id = Uuid(2)
    /\ issued >= 3
    /\ Len(itineraries) >= 2
    /\ \A i \in DOMAIN itineraries : itineraries[i].id # Uuid(2)

\* ------------------------------------------------ mock auth (AuthContext.tsx)
Emails == {"ann@x", "bob@x", "cy@x"}
Passwords == {"pw1", "pw2"}
UserNames == {"Ann"}

\* user === null, and the tripMentorUser key absent
NoUser == [name |-> "", email |-> ""]

\* const { password: _, ...userWithoutPassword } = u (the id, Date.now() as a
\* string, is left out of the model)
WithoutPassword(u) == [name |-> u.name, email |-> u.email]

AuthCall(op, email, password, result) ==
    [op |-> op, email |-> email, password |-> password, result |-> result,
     pre |-> tripMentorUsers]

\* users.find(u => u.email === email && u.password === password), 0 if none
FindUser(users, email, password) ==
    IF \E i \in DOMAIN users : users[i].email = email /\ users[i].password = password
    THEN CHOOSE i \in DOMAIN users :
            /\ users[i].email = email /\ users[i].password = password
            /\ \A j \in 1..(i - 1) :
                    ~(users[j].email = email /\ users[j].password = password)
    ELSE 0

\* lines 52-75: login; loading is set and reset within the call
Login(email, password) ==
    LET found == FindUser(tripMentorUsers, email, password)
    IN  /\ IF found # 0
           THEN /\ user' = WithoutPassword(tripMentorUsers[found])
                /\ tripMentorUser' = WithoutPassword(tripMentorUsers[found])
                /\ authCall' = AuthCall("login", email, password, TRUE)
           ELSE /\ authCall' = AuthCall("login", email, password, FALSE)
                /\ UNCHANGED <<user, tripMentorUser>>
        /\ loading' = FALSE
        /\ UNCHANGED tripMentorUsers
        /\ UNCHANGED <<allocatorVars, planVars, storeVars>>

\* a check that compares the name instead of the email
EmailTakenByName(users, email) == \E i \in DOMAIN users : users[i].name = email

\* line 87: users.some(u => u.email === email)
EmailTaken(users, email) == \E i \in DOMAIN users : users[i].email = email

\* lines 78-109: register
Register(name, email, password) ==
    /\ IF EmailTaken(tripMentorUsers, email)
       THEN /\ authCall' = AuthCall("register", email, password, FALSE)
            /\ UNCHANGED <<tripMentorUsers, user, tripMentorUser>>
       ELSE /\ tripMentorUsers' = Append(tripMentorUsers,
                    [name |-> name, email |-> email, password |-> password])
            /\ user' = [name |-> name, email |-> email]
            /\ tripMentorUser' = [name |-> name, email |-> email]
            /\ authCall' = AuthCall("register", email, password, TRUE)
    /\ loading' = FALSE
    /\ UNCHANGED <<allocatorVars, planVars, storeVars>>

\* lines 112-115: logout
Logout ==
    /\ user' = NoUser
    /\ tripMentorUser' = NoUser
    /\ authCall' = AuthCall("logout", "", "", TRUE)
    /\ UNCHANGED <<tripMentorUsers, loading>>
    /\ UNCHANGED <<allocatorVars, planVars, storeVars>>

NextAuth ==
    \/ \E email \in Emails, password \in Passwords : Login(email, password)
    \/ \E name \in UserNames, email \in Emails, password \in Passwords :
            Register(name, email, password)
    \/ Logout

SpecAuth == Init /\ [][NextAuth]_vars

\* ---------------------------------------------------------------------- C30
\* C30: a register call with an email already in tripMentorUsers returns
\* false and leaves the list unchanged; in every reachable state the emails
\* of tripMentorUsers are pairwise distinct; and no step removes or changes
\* an entry of the list (it only grows, at its end)
C30_DistinctEmails ==
    /\ [](\A i, j \in DOMAIN tripMentorUsers :
            tripMentorUsers[i].email = tripMentorUsers[j].email => i = j)
    /\ []((authCall.op = "register"
           /\ \E i \in DOMAIN authCall.pre : authCall.pre[i].email = authCall.email)
            => (~authCall.result /\ tripMentorUsers = authCall.pre))
    /\ []((authCall.op = "register"
           /\ \A i \in DOMAIN authCall.pre : authCall.pre[i].email # authCall.email)
            => (authCall.result /\ Len(tripMentorUsers) = Len(authCall.pre) + 1))
    /\ [][/\ Len(tripMentorUsers') >= Len(tripMentorUsers)
          /\ SubSeq(tripMentorUsers', 1, Len(tripMentorUsers)) = tripMentorUsers]_vars

\* a second registration of an email, with another password, was refused
\* while two users are stored and somebody else is logged in
C30_Witness ==
    /\ authCall.op = "register"
    /\ ~authCall.result
    /\ Len(tripMentorUsers) = 2
    /\ tripMentorUsers[1].email = authCall.email
    /\ tripMentorUsers[1].password # authCall.password
    /\ user.email = tripMentorUsers[2].email
====
